---- MODULE Spec2Model ----
(***************************************************************************)
(* A model of dropafile (src/dropafile.py): the password generator, the    *)
(* WSGI application (check_auth, authenticate, handle_uploaded_files,      *)
(* __call__), the TLS bootstrap and run_server.                            *)
(*                                                                         *)
(* Text is modelled as sequences of one-character strings, so that          *)
(* filename sanitisation, path joining and password comparison are          *)
(* computed character by character.                                         *)
(***************************************************************************)
EXTENDS Integers, Sequences, FiniteSets, TLC

\* ------------------------------------------------------------------ bounds

\* Longest client filename enumerated over NameAlphabet.
MaxNameLen == 2

\* Most files the disk has room for beside the host's own.
MaxFiles == 1

\* Largest step of the modelled random stream (see Choice).
MaxStride == 1

\* Requests a threaded server handles at once.
NThreads == 2

\* ------------------------------------------------------------- text helpers

\* Python's None, and a value that is not None: an optional value is a sequence
\* of at most one element.
None == <<>>

Some(x) == <<x>>

\* All sequences over S of length at most n.
SeqsUpTo(S, n) == UNION {[1..k -> S] : k \in 0..n}

IsPrefix(p, s) == Len(p) <= Len(s) /\ SubSeq(s, 1, Len(p)) = p

RECURSIVE Join(_, _)
\* sep.join(words)
Join(words, sep) ==
    IF words = <<>> THEN <<>>
    ELSE IF Len(words) = 1 THEN Head(words)
    ELSE Head(words) \o sep \o Join(Tail(words), sep)

\* Length of the leading run of s that holds no character of seps.
RunLen(s, seps) ==
    IF \E i \in 1..Len(s) : s[i] \in seps
    THEN (CHOOSE i \in 1..Len(s) :
              s[i] \in seps /\ \A j \in 1..(i - 1) : s[j] \notin seps) - 1
    ELSE Len(s)

RECURSIVE Words(_, _)
\* The maximal non-empty runs of s between characters of seps, in order
\* (str.split() for whitespace; the components of a path for "/").
Words(s, seps) ==
    IF s = <<>> THEN <<>>
    ELSE IF Head(s) \in seps THEN Words(Tail(s), seps)
    ELSE LET n == RunLen(s, seps)
         IN  <<SubSeq(s, 1, n)>> \o Words(SubSeq(s, n + 1, Len(s)), seps)

\* s.replace(old, new) for a single character old.
Replace(s, old, new) == [i \in 1..Len(s) |-> IF s[i] = old THEN new ELSE s[i]]

RECURSIVE Keep(_, _)
\* s without the characters outside allowed (re.sub of the complement).
Keep(s, allowed) ==
    IF s = <<>> THEN <<>>
    ELSE IF Head(s) \in allowed THEN <<Head(s)>> \o Keep(Tail(s), allowed)
    ELSE Keep(Tail(s), allowed)

RECURSIVE LStrip(_, _)
LStrip(s, chars) ==
    IF s # <<>> /\ Head(s) \in chars THEN LStrip(Tail(s), chars) ELSE s

RECURSIVE RStrip(_, _)
RStrip(s, chars) ==
    IF s # <<>> /\ s[Len(s)] \in chars
    THEN RStrip(SubSeq(s, 1, Len(s) - 1), chars) ELSE s

\* s.strip(chars)
Strip(s, chars) == RStrip(LStrip(s, chars), chars)

\* -------------------------------------------------------- password generator

\* An alphabet that keeps the characters easily mixed up.
ALLOWED_PWD_CHARS_unrestricted ==
    <<"A", "B", "C", "D", "E", "F", "G", "H", "I", "J", "K", "L", "M",
      "N", "O", "P", "Q", "R", "S", "T", "U", "V", "W", "X", "Y", "Z",
      "0", "1", "2", "3", "4", "5", "6", "7", "8", "9",
      "a", "b", "c", "d", "e", "f", "g", "h", "i", "j", "k", "l", "m",
      "n", "o", "p", "q", "r", "s", "t", "u", "v", "w", "x", "y", "z">>

\* ALLOWED_PWD_CHARS, character by character.
ALLOWED_PWD_CHARS ==
    <<"A", "B", "C", "D", "E", "F", "G", "H", "J", "K", "L", "M",
      "N", "P", "Q", "R", "S", "T", "U", "V", "W", "X", "Y", "Z",
      "2", "3", "4", "5", "6", "7", "8", "9", "a", "b", "c", "d",
      "e", "f", "g", "h", "j", "k", "m", "n", "p", "q", "r", "s",
      "t", "u", "v", "w", "x", "y", "z">>

\* range(23) in get_random_password.
PwdLen == 23

\* The characters the specification calls visually ambiguous.
AmbiguousChars == {"0", "O", "1", "l", "I"}

\* The random sources the model draws from: SystemRandom is the environment's,
\* and the model samples it by streams whose k-th draw is seed + k * stride.
\* Every index of a 55-character sequence occurs at every position.
RandomSources ==
    [seed : 0..(Len(ALLOWED_PWD_CHARS) - 1), stride : 0..MaxStride]

\* rnd.choice(seq) at the k-th draw (k from 0) of the source rnd.
Choice(rnd, k, seq) == seq[((rnd.seed + k * rnd.stride) % Len(seq)) + 1]

\* get_random_password(): ''.join([rnd.choice(ALLOWED_PWD_CHARS) for x in range(23)])
get_random_password(rnd) ==
    [x \in 1..PwdLen |-> Choice(rnd, x - 1, ALLOWED_PWD_CHARS)]

\* --------------------------------------------------------- secure_filename

Letters ==
    {"A", "B", "C", "D", "E", "F", "G", "H", "I", "J", "K", "L",
     "M", "N", "O", "P", "Q", "R", "S", "T", "U", "V", "W", "X",
     "Y", "Z", "a", "b", "c", "d", "e", "f", "g", "h", "i", "j",
     "k", "l", "m", "n", "o", "p", "q", "r", "s", "t", "u", "v",
     "w", "x", "y", "z"}

Digits == {"0", "1", "2", "3", "4", "5", "6", "7", "8", "9"}

\* The complement of werkzeug's _filename_ascii_strip_re, [^A-Za-z0-9_.-].
FilenameChars == Letters \cup Digits \cup {"_", ".", "-"}

Whitespace == {" "}

\* werkzeug's secure_filename on a POSIX host, for ASCII input: path separators
\* become spaces, the words are joined by "_", characters outside
\* [A-Za-z0-9_.-] are dropped, and leading and trailing "." and "_" are stripped.
secure_filename(filename) ==
    Strip(Keep(Join(Words(Replace(filename, "/", " "), Whitespace), <<"_">>),
               FilenameChars),
          {".", "_"})

\* ------------------------------------------------------------ paths, files

\* os.path.join(a, p) on POSIX.
os_path_join(a, p) ==
    IF p # <<>> /\ Head(p) = "/" THEN p
    ELSE IF a = <<>> \/ a[Len(a)] = "/" THEN a \o p
    ELSE a \o <<"/">> \o p

\* The directories of the host. Requests create no directory.
tmp == <<"t", "m", "p">>
up == <<"u", "p">>
etc == <<"e", "t", "c">>
passwd == <<"p", "a", "s", "s", "w", "d">>
srv == <<"s", "r", "v">>
indir == <<"i", "n">>
old == <<"o", "l", "d">>
Dirs == {<<>>, <<tmp>>, <<tmp, up>>, <<etc>>, <<srv>>, <<srv, indir>>}

\* What tempfile.mkdtemp() returned for the upload directory: "/tmp/up".
MkdTemp == <<"/">> \o tmp \o <<"/">> \o up

\* An upload directory the operator supplies, holding a file already: "/srv/in/".
SuppliedDir == <<"/">> \o srv \o <<"/">> \o indir \o <<"/">>

ENOENT == "ENOENT"
EISDIR == "EISDIR"
EACCES == "EACCES"
ENOSPC == "ENOSPC"

Parent(comps) == IF comps = <<>> THEN <<>> ELSE SubSeq(comps, 1, Len(comps) - 1)

RECURSIVE Walk(_, _)
\* The kernel's walk of the components ws from directory cur: the components
\* of the file named, or ENOENT when a directory on the way does not exist.
Walk(cur, ws) ==
    IF ws = <<>> THEN [errno |-> "ok", comps |-> cur]
    ELSE IF Head(ws) = <<".">> THEN Walk(cur, Tail(ws))
    ELSE IF Head(ws) = <<".", ".">> THEN Walk(Parent(cur), Tail(ws))
    ELSE IF Len(ws) = 1 THEN [errno |-> "ok", comps |-> cur \o ws]
    ELSE IF (cur \o <<Head(ws)>>) \in Dirs THEN Walk(cur \o <<Head(ws)>>, Tail(ws))
    ELSE [errno |-> ENOENT, comps |-> cur \o <<Head(ws)>>]

\* The file an absolute path names (its components from the root), or ENOENT.
Resolve(path) == Walk(<<>>, Words(path, {"/"}))

\* A path that can only name a directory: it ends in "/", "." or "..".
NamesDir(path) ==
    LET ws == Words(path, {"/"})
    IN  \/ ws = <<>>
        \/ path[Len(path)] = "/"
        \/ ws[Len(ws)] \in {<<".">>, <<".", ".">>}

\* open without truncation (mode 'r+b' on an existing file).
OpenWb_no_truncate(f, path) ==
    LET r == Resolve(path)
        t == r.comps
    IN  IF r.errno # "ok" THEN [errno |-> r.errno, target |-> t, files |-> f]
        ELSE IF NamesDir(path) \/ t \in Dirs
             THEN [errno |-> EISDIR, target |-> t, files |-> f]
        ELSE [errno |-> "ok", target |-> t,
              files |-> [p \in DOMAIN f \cup {t} |->
                            IF p \in DOMAIN f THEN f[p] ELSE <<>>]]

\* open(path, 'wb') on the files f: "ok" and the file created or truncated,
\* or the errno and f unchanged. target is the file or directory the path names.
OpenWb(f, path) ==
    LET r == Resolve(path)
        t == r.comps
    IN  IF r.errno # "ok" THEN [errno |-> r.errno, target |-> t, files |-> f]
        ELSE IF NamesDir(path) \/ t \in Dirs
             THEN [errno |-> EISDIR, target |-> t, files |-> f]
        ELSE [errno |-> "ok", target |-> t,
              files |-> [p \in DOMAIN f \cup {t} |-> IF p = t THEN <<>> ELSE f[p]]]

\* write() of the bytes data to the file t opened by OpenWb, at offset 0.
WriteAt0(f, t, data) ==
    [f EXCEPT ![t] = data \o SubSeq(f[t], Len(data) + 1, Len(f[t]))]

\* ------------------------------------------------------------------ state

VARIABLES
    password,      \* DropAFileApplication.password
    upload_dir,    \* DropAFileApplication.upload_dir
    rnd,           \* the random source the constructor drew from
    files,         \* the host's files: path (components) -> content
    pc,            \* the server: "idle" or "responded"
    request,       \* the request being answered, or None
    response,      \* its response, or None
    printed,       \* what the call wrote to stdout
    assets,        \* the static files the call read
    target,        \* what the call opened, or tried to open, for writing; or None
    errno,         \* how the call's save ended: "none", "ok" or the error
    before,        \* the files when the call began
    threads,       \* the concurrent server's request threads
    boot           \* run_server's progress

app == <<password, upload_dir, rnd>>
call == <<pc, request, response, printed, assets, target, errno, before>>
vars == <<password, upload_dir, rnd, files, pc, request, response, printed,
          assets, target, errno, before, threads, boot>>

\* ----------------------------------------------------------- the application

\* PATH_MAP
PATH_MAP ==
    [p \in {"/dropzone.js", "/dropzone.css", "/style.css", "/index.html"} |->
        CASE p = "/dropzone.js" -> <<"dropzone.js", "text/javascript">>
          [] p = "/dropzone.css" -> <<"dropzone.css", "text/css">>
          [] p = "/style.css" -> <<"style.css", "text/css">>
          [] p = "/index.html" -> <<"page.html", "text/html">>]

\* The content of the file static/<filename> beside the module: the assets are
\* files of the installation, each named here by its own content.
StaticContent(filename) == <<"static", filename>>

\* DropAFileApplication.__init__(password, upload_dir); the arguments are
\* optional values and r is the random source get_random_password draws from.
AppInit(pwArg, dirArg, r) ==
    [password |-> IF pwArg = None THEN get_random_password(r) ELSE pwArg[1],
     upload_dir |-> IF dirArg = None THEN MkdTemp ELSE dirArg[1]]

\* werkzeug's parse_authorization_header (request.authorization): None for no
\* header, a header that does not decode, or Basic credentials without ":";
\* Basic credentials split at the first ":"; a Digest header has no password.
Authorization(header) ==
    IF header = None THEN None
    ELSE LET h == header[1]
         IN  IF h.scheme = "Digest"
             THEN Some([type |-> "digest", username |-> h.payload, password |-> None])
             ELSE IF h.scheme # "Basic" \/ ~h.decodes \/ ":" \notin {h.payload[i] : i \in 1..Len(h.payload)}
             THEN None
             ELSE LET n == RunLen(h.payload, {":"})
                  IN  Some([type |-> "basic",
                            username |-> SubSeq(h.payload, 1, n),
                            password |-> Some(SubSeq(h.payload, n + 2, Len(h.payload)))])

\* check_auth comparing only as far as the password sent reaches.
check_auth_prefix(pw, req) ==
    LET auth == Authorization(req.authorization)
    IN  IF auth = None THEN FALSE
        ELSE IF auth[1].password = None THEN FALSE
        ELSE IF ~IsPrefix(auth[1].password[1], pw) THEN FALSE
        ELSE TRUE

\* DropAFileApplication.check_auth
check_auth(pw, req) ==
    LET auth == Authorization(req.authorization)
    IN  IF auth = None THEN FALSE
        ELSE IF auth[1].password # Some(pw) THEN FALSE
        ELSE TRUE

\* DropAFileApplication.authenticate
authenticate ==
    [status |-> 401, www_authenticate |-> "Basic realm=\"Login required\"",
     mimetype |-> "text/html", body |-> <<"401 Unauthorized">>]

\* The server's answer to a call that raised: 500, and the process goes on.
InternalServerError ==
    [status |-> 500, www_authenticate |-> "", mimetype |-> "text/html",
     body |-> <<"500 Internal Server Error">>]

\* request.files taking the first part whatever its field name.
FilesGet_any_field(req, field) ==
    IF req.files # <<>> THEN Some(req.files[1]) ELSE None

\* request.files.get('file', None)
FilesGet(req, field) ==
    IF \E i \in 1..Len(req.files) : req.files[i].field = field
    THEN Some(req.files[CHOOSE i \in 1..Len(req.files) :
                  req.files[i].field = field
                  /\ \A j \in 1..(i - 1) : req.files[j].field # field])
    ELSE None

\* FileStorage.save(path) under the environment's fault for this call: open the
\* destination for writing (truncating it), copy the stream, close. quota is
\* the number of files the disk holds at most. errno is "ok" or what it raised.
Save(f, path, data, fault, quota) ==
    LET o == OpenWb(f, path)
    IN  IF o.errno # "ok"
        THEN [errno |-> o.errno, files |-> f, target |-> o.target]
        ELSE IF fault.errno = EACCES
        THEN [errno |-> EACCES, files |-> f, target |-> o.target]
        ELSE IF Cardinality(DOMAIN o.files) > quota
        THEN [errno |-> ENOSPC, files |-> f, target |-> o.target]
        ELSE IF fault.errno = ENOSPC
        THEN [errno |-> ENOSPC, target |-> o.target,
              files |-> WriteAt0(o.files, o.target, SubSeq(data, 1, fault.written))]
        ELSE [errno |-> "ok", target |-> o.target,
              files |-> WriteAt0(o.files, o.target, data)]

\* DropAFileApplication.handle_uploaded_files; errno is "none" when nothing was
\* saved, "ok" when the file was, and otherwise the error save raised.
handle_uploaded_files(dir, req, f, fault, quota) ==
    LET uploaded_file == FilesGet(req, "file")
    IN  IF uploaded_file = None
        THEN [errno |-> "none", files |-> f, printed |-> <<>>, target |-> None]
        ELSE LET filename == secure_filename(uploaded_file[1].filename)
                 path == os_path_join(dir, filename)
                 saved == Save(f, path, uploaded_file[1].content, fault, quota)
             IN  [errno |-> saved.errno, files |-> saved.files,
                  printed |-> <<<<"RECEIVED: ", path>>>>,
                  target |-> Some(saved.target)]

\* A router answering 404 for a path PATH_MAP does not hold.
Route_not_found(path) ==
    IF path \notin DOMAIN PATH_MAP
    THEN [asset |-> "",
          response |-> [status |-> 404, www_authenticate |-> "",
                        mimetype |-> "text/html", body |-> <<"404 Not Found">>]]
    ELSE [asset |-> PATH_MAP[path][1],
          response |-> [status |-> 200, www_authenticate |-> "",
                        mimetype |-> PATH_MAP[path][2],
                        body |-> StaticContent(PATH_MAP[path][1])]]

\* The static router of __call__: the asset and the response for a path.
Route(path) ==
    LET p == IF path \notin DOMAIN PATH_MAP THEN "/index.html" ELSE path
        filename == PATH_MAP[p][1]
        mimetype == PATH_MAP[p][2]
    IN  [asset |-> filename,
         response |-> [status |-> 200, www_authenticate |-> "",
                       mimetype |-> mimetype, body |-> StaticContent(filename)]]

\* __call__ handling the upload before it checks the credentials.
Call_upload_first(pw, dir, req, f, fault, quota) ==
    LET u == handle_uploaded_files(dir, req, f, fault, quota)
    IN  IF ~check_auth(pw, req)
        THEN [response |-> authenticate, files |-> u.files, printed |-> u.printed,
              assets |-> {}, target |-> u.target, errno |-> u.errno]
        ELSE IF u.errno \notin {"none", "ok"}
        THEN [response |-> InternalServerError, files |-> u.files,
              printed |-> u.printed, assets |-> {}, target |-> u.target,
              errno |-> u.errno]
        ELSE [response |-> Route(req.path).response, files |-> u.files,
              printed |-> u.printed, assets |-> {Route(req.path).asset},
              target |-> u.target, errno |-> u.errno]

\* __call__ swallowing what handle_uploaded_files raises.
Call_masking(pw, dir, req, f, fault, quota) ==
    IF ~check_auth(pw, req)
    THEN [response |-> authenticate, files |-> f, printed |-> <<>>,
          assets |-> {}, target |-> None, errno |-> "none"]
    ELSE LET u == handle_uploaded_files(dir, req, f, fault, quota)
         IN  [response |-> Route(req.path).response, files |-> u.files,
              printed |-> u.printed, assets |-> {Route(req.path).asset},
              target |-> u.target, errno |-> u.errno]

\* DropAFileApplication.__call__, with the server's answer when it raises.
Call(pw, dir, req, f, fault, quota) ==
    IF ~check_auth(pw, req)
    THEN [response |-> authenticate, files |-> f, printed |-> <<>>,
          assets |-> {}, target |-> None, errno |-> "none"]
    ELSE LET u == handle_uploaded_files(dir, req, f, fault, quota)
         IN  IF u.errno \notin {"none", "ok"}
             THEN [response |-> InternalServerError, files |-> u.files,
                   printed |-> u.printed, assets |-> {}, target |-> u.target,
                   errno |-> u.errno]
             ELSE [response |-> Route(req.path).response, files |-> u.files,
                   printed |-> u.printed, assets |-> {Route(req.path).asset},
                   target |-> u.target, errno |-> u.errno]

\* ------------------------------------------------------------ environment

\* The password of the specification's end-to-end example, "s3cr3t-Pwd12345".
ExamplePassword == <<"s", "3", "c", "r", "3", "t", "-", "P", "w", "d", "1", "2", "3", "4", "5">>

\* Filenames of the specification's examples: "hello.txt", "../../etc/passwd".
hello_txt == <<"h", "e", "l", "l", "o", ".", "t", "x", "t">>
etc_passwd_traversal == <<".", ".", "/", ".", ".", "/", "e", "t", "c", "/", "p", "a", "s", "s", "w", "d">>

\* The characters client filenames are enumerated over.
NameAlphabet == {"/", ".", "a"}

Filenames ==
    SeqsUpTo(NameAlphabet, MaxNameLen) \cup {hello_txt, etc_passwd_traversal}

Contents == {<<"h", "i">>, <<"y">>}

Fields == {"file", "other"}

\* request.files: no part, or one part under some field name.
Uploads ==
    {<<>>} \cup {<<part>> : part \in [field : Fields, filename : Filenames,
                                      content : Contents]}

Methods == {"GET", "POST"}

Paths == DOMAIN PATH_MAP \cup {"/", "/unknown/path"}

bob == <<"b", "o", "b">>

\* Passwords a client tries against the secret pw: the secret, the secret
\* without its last character, the secret with one more, and the empty one.
Tried(pw) == {pw, SubSeq(pw, 1, Len(pw) - 1), pw \o <<"x">>, <<>>}

Basic(payload) == Some([scheme |-> "Basic", decodes |-> TRUE, payload |-> payload])

\* The Authorization headers sent: none, Basic credentials "user:password",
\* Basic credentials without ":", a Basic header that does not decode, Digest.
Headers(pw) ==
    {None}
    \cup {Basic(u \o <<":">> \o p) : u \in {<<>>, bob}, p \in Tried(pw)}
    \cup {Basic(pw),
          Some([scheme |-> "Basic", decodes |-> FALSE, payload |-> <<>>]),
          Some([scheme |-> "Digest", decodes |-> TRUE, payload |-> bob])}

\* The upload of the specification's example: field file, "hello.txt", "hi".
ExampleUpload == <<[field |-> "file", filename |-> hello_txt, content |-> <<"h", "i">>]>>

\* The header of a client that knows the secret pw.
Good(pw) == Basic(bob \o <<":">> \o pw)

\* The requests sent to an application whose secret is pw: every method and
\* path, and every header, each without an upload and with the example's; and
\* every upload posted to "/"; without a header and with the secret.
Requests(pw) ==
    [method : Methods, path : Paths, authorization : {None, Good(pw)},
     files : {<<>>, ExampleUpload}]
    \cup [method : {"GET"}, path : {"/index.html"}, authorization : Headers(pw),
          files : {<<>>, ExampleUpload}]
    \cup [method : {"POST"}, path : {"/"}, authorization : {None, Good(pw)},
          files : Uploads]

NoFault == [errno |-> "ok", written |-> 0]

\* The faults of the environment during the save of a request's upload: none,
\* the open is refused, or the disk fills after `written` bytes.
Faults(req) ==
    {NoFault}
    \cup {[errno |-> EACCES, written |-> 0] : part \in {req.files[i] : i \in 1..Len(req.files)}}
    \cup {[errno |-> ENOSPC, written |-> n] :
            n \in UNION {0..(Len(req.files[i].content) - 1) : i \in 1..Len(req.files)}}

\* The host's files before the application starts: /etc/passwd, /srv/in/old.
HostFiles == [p \in {<<etc, passwd>>, <<srv, indir, old>>} |-> <<"r">>]

\* The disk holds the host's files and at most MaxFiles more.
Quota == Cardinality(DOMAIN HostFiles) + MaxFiles

Idle ==
    /\ pc = "idle" /\ request = None /\ response = None /\ printed = <<>>
    /\ assets = {} /\ target = None /\ errno = "none" /\ before = files

\* ------------------------------------------------- the sequential server

\* The application constructed, with a password supplied or generated, and
\* the server (run_simple, one request at a time) waiting for a request.
Init ==
    /\ rnd = [seed |-> 0, stride |-> 1]
    /\ \E args \in {<<None, None>>, <<Some(ExamplePassword), Some(SuppliedDir)>>} :
         /\ password = AppInit(args[1], args[2], rnd).password
         /\ upload_dir = AppInit(args[1], args[2], rnd).upload_dir
    /\ files = HostFiles
    /\ Idle
    /\ threads = <<>>
    /\ boot = <<>>

\* The server reads a request, calls the application and sends its response.
Serve ==
    /\ pc = "idle"
    /\ \E req \in Requests(password) : \E fault \in Faults(req) :
         \E c \in {Call(password, upload_dir, req, files, fault, Quota)} :
             /\ request' = Some(req)
             /\ response' = Some(c.response)
             /\ files' = c.files
             /\ printed' = c.printed
             /\ assets' = c.assets
             /\ target' = c.target
             /\ errno' = c.errno
    /\ before' = files
    /\ pc' = "responded"
    /\ UNCHANGED <<app, threads, boot>>

\* The connection is closed and the server waits for the next request.
Close ==
    /\ pc = "responded"
    /\ pc' = "idle" /\ request' = None /\ response' = None /\ printed' = <<>>
    /\ assets' = {} /\ target' = None /\ errno' = "none" /\ before' = files
    /\ UNCHANGED <<app, files, threads, boot>>

Next == Serve \/ Close

Spec == Init /\ [][Next]_vars

\* ------------------------------------------------------- the constructor

\* Before DropAFileApplication(password, upload_dir) runs: its arguments and
\* the random source are the environment's.
InitNew ==
    /\ rnd \in RandomSources
    /\ boot \in [pc : {"new"},
                 pwArg : {None, Some(ExamplePassword), Some(<<>>)},
                 dirArg : {None, Some(SuppliedDir)}]
    /\ password = <<>>
    /\ upload_dir = <<>>
    /\ files = HostFiles
    /\ Idle
    /\ threads = <<>>

\* DropAFileApplication.__init__
Construct ==
    /\ boot.pc = "new"
    /\ password' = AppInit(boot.pwArg, boot.dirArg, rnd).password
    /\ upload_dir' = AppInit(boot.pwArg, boot.dirArg, rnd).upload_dir
    /\ boot' = [boot EXCEPT !.pc = "constructed"]
    /\ UNCHANGED <<rnd, files, call, threads>>

NextNew == Construct

SpecInit == InitNew /\ [][NextNew]_vars

\* --------------------------------------------------------------- run_server

\* Before run_server runs. The environment decides whether the openssl command
\* is absent, fails (a non-zero exit, no usable cert.pem and cert.key) or writes
\* the pair, and whether the ssl module has SSLContext (Python >= 2.7.9).
InitBoot ==
    /\ rnd \in RandomSources
    /\ boot \in [pc : {"start"},
                 openssl : {"absent", "fails", "ok"},
                 has_SSLContext : BOOLEAN,
                 cert : {"missing"},
                 ssl_context : {"unset"}]
    /\ password = <<>>
    /\ upload_dir = <<>>
    /\ files = HostFiles
    /\ Idle
    /\ threads = <<>>

\* get_ssl_context() with no arguments: create_ssl_cert runs openssl through
\* execute_cmd, whose Popen raises when the command is absent and whose exit
\* status is not read; then, if the ssl module has SSLContext, the pair is
\* loaded (load_cert_chain raises on a missing or unusable pair), and otherwise
\* the pair of paths is the context as it is.
GetSslContext ==
    /\ boot.pc = "start"
    /\ boot' =
         IF boot.openssl = "absent"
         THEN [boot EXCEPT !.pc = "aborted"]
         ELSE LET made == IF boot.openssl = "ok" THEN "valid" ELSE "missing"
              IN  IF boot.has_SSLContext
                  THEN IF made = "valid"
                       THEN [boot EXCEPT !.pc = "context", !.cert = made,
                                         !.ssl_context = "SSLContext"]
                       ELSE [boot EXCEPT !.pc = "aborted", !.cert = made]
                  ELSE [boot EXCEPT !.pc = "context", !.cert = made,
                                    !.ssl_context = "paths"]
    /\ UNCHANGED <<app, files, call, threads>>

\* application = DropAFileApplication()
BootConstruct ==
    /\ boot.pc = "context"
    /\ password' = AppInit(None, None, rnd).password
    /\ upload_dir' = AppInit(None, None, rnd).upload_dir
    /\ boot' = [boot EXCEPT !.pc = "constructed"]
    /\ UNCHANGED <<rnd, files, call, threads>>

\* run_simple(host, port, application, ssl_context=ssl_context): the server
\* binds and listens. Given a pair of paths it reads neither file before a
\* client connects.
RunSimple ==
    /\ boot.pc = "constructed"
    /\ boot' = [boot EXCEPT !.pc = "listening"]
    /\ UNCHANGED <<app, files, call, threads>>

NextBoot == GetSslContext \/ BootConstruct \/ RunSimple

SpecBoot == InitBoot /\ [][NextBoot]_vars

\* ------------------------------------------------------ a threaded server

IdleThread == [pc |-> "idle", target |-> None, data |-> <<>>, status |-> 0]

\* The application constructed as in Init, served by a server that runs each
\* request in a thread of its own. The environment raises no fault here.
InitConc ==
    /\ rnd = [seed |-> 0, stride |-> 1]
    /\ \E args \in {<<None, None>>, <<Some(ExamplePassword), Some(SuppliedDir)>>} :
         /\ password = AppInit(args[1], args[2], rnd).password
         /\ upload_dir = AppInit(args[1], args[2], rnd).upload_dir
    /\ files = HostFiles
    /\ Idle
    /\ threads = [t \in 1..NThreads |-> IdleThread]
    /\ boot = <<>>

\* Thread t runs __call__ on a request up to the open() in FileStorage.save:
\* check_auth, request.files.get, secure_filename, os.path.join, open(path, 'wb').
\* A request that is rejected, carries no file or cannot be opened ends here.
Begin(t) ==
    /\ threads[t].pc = "idle"
    /\ \E req \in Requests(password) :
         IF ~check_auth(password, req)
         THEN /\ threads' = [threads EXCEPT ![t] =
                    [IdleThread EXCEPT !.pc = "done", !.status = authenticate.status]]
              /\ files' = files
         ELSE IF FilesGet(req, "file") = None
         THEN /\ threads' = [threads EXCEPT ![t] =
                    [IdleThread EXCEPT !.pc = "done",
                                       !.status = Route(req.path).response.status]]
              /\ files' = files
         ELSE LET part == FilesGet(req, "file")[1]
                  path == os_path_join(upload_dir, secure_filename(part.filename))
                  o == OpenWb(files, path)
              IN  IF o.errno # "ok" \/ Cardinality(DOMAIN o.files) > Quota
                  THEN /\ threads' = [threads EXCEPT ![t] =
                            [pc |-> "done", target |-> Some(o.target),
                             data |-> part.content,
                             status |-> InternalServerError.status]]
                       /\ files' = files
                  ELSE /\ threads' = [threads EXCEPT ![t] =
                            [pc |-> "opened", target |-> Some(o.target),
                             data |-> part.content,
                             status |-> Route(req.path).response.status]]
                       /\ files' = o.files
    /\ UNCHANGED <<app, call, boot>>

\* Thread t copies its upload into the file it opened, closes it and answers.
Write(t) ==
    /\ threads[t].pc = "opened"
    /\ files' = WriteAt0(files, threads[t].target[1], threads[t].data)
    /\ threads' = [threads EXCEPT ![t].pc = "done"]
    /\ UNCHANGED <<app, call, boot>>

\* Every request of the batch is answered; the threads take new ones.
Reset ==
    /\ \A t \in 1..NThreads : threads[t].pc = "done"
    /\ threads' = [t \in 1..NThreads |-> IdleThread]
    /\ UNCHANGED <<app, files, call, boot>>

NextConc == (\E t \in 1..NThreads : Begin(t) \/ Write(t)) \/ Reset

SpecConc == InitConc /\ [][NextConc]_vars

\* ------------------------------------------------- properties of the server

Responded == pc = "responded"

Req == request[1]

Resp == response[1]

\* The upload directory, as the components of its path.
UploadDir == Resolve(upload_dir).comps

\* The path p lies strictly below the directory d.
Inside(p, d) == Len(p) > Len(d) /\ SubSeq(p, 1, Len(d)) = d

\* The request has a part under the field "file".
HasFileField(req) == \E i \in 1..Len(req.files) : req.files[i].field = "file"

\* The part request.files.get('file') returns: the first under that field.
FilePart(req) ==
    req.files[CHOOSE i \in 1..Len(req.files) :
                 req.files[i].field = "file"
                 /\ \A j \in 1..(i - 1) : req.files[j].field # "file"]

\* The header carries Basic credentials "user:password" whose password, what
\* follows the first ":", is exactly pw.
CarriesSecret(header, pw) ==
    /\ header # None
    /\ header[1].scheme = "Basic"
    /\ header[1].decodes
    /\ \E n \in 1..Len(header[1].payload) :
         /\ header[1].payload[n] = ":"
         /\ \A j \in 1..(n - 1) : header[1].payload[j] # ":"
         /\ SubSeq(header[1].payload, n + 1, Len(header[1].payload)) = pw

\* The page the interface documents for a path: the asset and content type of
\* the four routes, and the index page for every other path.
DocumentedPage(path) ==
    CASE path = "/dropzone.js" ->
           [status |-> 200, www_authenticate |-> "", mimetype |-> "text/javascript",
            body |-> <<"static", "dropzone.js">>]
      [] path = "/dropzone.css" ->
           [status |-> 200, www_authenticate |-> "", mimetype |-> "text/css",
            body |-> <<"static", "dropzone.css">>]
      [] path = "/style.css" ->
           [status |-> 200, www_authenticate |-> "", mimetype |-> "text/css",
            body |-> <<"static", "style.css">>]
      [] OTHER ->
           [status |-> 200, www_authenticate |-> "", mimetype |-> "text/html",
            body |-> <<"static", "page.html">>]

\* C1: check_auth is true exactly when the request carries Basic credentials
\* whose password equals the secret, whatever the username; it is false
\* without credentials, with a malformed header and with any other password.
C1_CheckAuthIffSecret ==
    Responded =>
        (check_auth(password, Req) <=> CarriesSecret(Req.authorization, password))

\* C1 witness: a request with the empty username and the secret was accepted.
C1_Witness ==
    /\ Responded
    /\ Req.authorization = Basic(<<":">> \o password)
    /\ check_auth(password, Req)
    /\ Resp.status = 200

\* C2: a request check_auth rejects is answered 401 with the Basic challenge
\* and text/html, and nothing else happens: no file is opened or changed,
\* nothing is printed and no static asset is read.
C2_RejectionTerminal ==
    (Responded /\ ~check_auth(password, Req)) =>
        /\ Resp.status = 401
        /\ Resp.www_authenticate = "Basic realm=\"Login required\""
        /\ Resp.mimetype = "text/html"
        /\ files = before
        /\ target = None
        /\ errno = "none"
        /\ printed = <<>>
        /\ assets = {}

\* C2 witness: a rejected request that carried a file field.
C2_Witness ==
    /\ Responded
    /\ ~check_auth(password, Req)
    /\ HasFileField(Req)
    /\ Resp.status = 401
    /\ files = before

\* C3: whatever filename the client sends, no file outside the upload
\* directory is created or changed, and what the handler opens for writing is
\* the sanitized name directly inside the upload directory, never the
\* directory itself or one above it.
C3_WriteTargetInside ==
    /\ \A p \in DOMAIN files :
         ~Inside(p, UploadDir) => (p \in DOMAIN HostFiles /\ files[p] = HostFiles[p])
    /\ target # None =>
         /\ Inside(target[1], UploadDir)
         /\ Len(target[1]) = Len(UploadDir) + 1

\* C4: an accepted upload whose save succeeds leaves a file named by the
\* sanitized filename holding exactly the content sent, every other file as it
\* was, and the response is the 200 page; with the secret s3cr3t-Pwd12345,
\* hello.txt = hi is stored as hello.txt holding hi.
C4_UploadStored ==
    (Responded /\ check_auth(password, Req) /\ HasFileField(Req) /\ errno = "ok") =>
        LET part == FilePart(Req)
            t == UploadDir \o <<secure_filename(part.filename)>>
        IN  /\ secure_filename(part.filename) # <<>>
            /\ t \in DOMAIN files
            /\ files[t] = part.content
            /\ DOMAIN files = DOMAIN before \cup {t}
            /\ \A p \in DOMAIN before \ {t} : files[p] = before[p]
            /\ Resp = DocumentedPage(Req.path)
            /\ (part.filename = hello_txt /\ part.content = <<"h", "i">>) =>
                   (UploadDir \o <<hello_txt>>) \in DOMAIN files
                   /\ files[UploadDir \o <<hello_txt>>] = <<"h", "i">>

\* C4 witness: with the example's secret, hello.txt = hi replaced an earlier
\* hello.txt beside another file of the directory, and the answer was 200.
C4_Witness ==
    /\ Responded
    /\ password = ExamplePassword
    /\ Req.method = "POST" /\ Req.path = "/"
    /\ Req.files = ExampleUpload
    /\ errno = "ok"
    /\ (UploadDir \o <<hello_txt>>) \in DOMAIN before
    /\ before[UploadDir \o <<hello_txt>>] = <<"y">>
    /\ files[UploadDir \o <<hello_txt>>] = <<"h", "i">>
    /\ (UploadDir \o <<old>>) \in DOMAIN files
    /\ Resp.status = 200

\* C5: an accepted request with no part under the field file changes no file,
\* prints nothing, raises nothing and gets the 200 page of its path.
C5_NoFileFieldNoop ==
    (Responded /\ check_auth(password, Req) /\ ~HasFileField(Req)) =>
        /\ files = before
        /\ printed = <<>>
        /\ target = None
        /\ errno = "none"
        /\ Resp = DocumentedPage(Req.path)

\* C5 witness: an accepted request whose only file came under another field.
C5_Witness ==
    /\ Responded
    /\ check_auth(password, Req)
    /\ Req.files # <<>>
    /\ ~HasFileField(Req)
    /\ Resp.status = 200

\* C6 as stated: a GET of one of the four routes returns its asset, and an
\* unmapped path or a POST returns the index page (here for the calls that did
\* not raise).
C6_PostReturnsIndex ==
    (Responded /\ check_auth(password, Req) /\ errno \in {"none", "ok"}) =>
        IF Req.path \notin {"/dropzone.js", "/dropzone.css", "/style.css"}
              \/ Req.method = "POST"
        THEN Resp = DocumentedPage("/index.html")
        ELSE Resp = DocumentedPage(Req.path)

\* C6 amended: an accepted request whose call did not raise gets the page of
\* its path alone: the asset and content type of a mapped path whatever the
\* method (a POST too), the index page for every other path, never a 404, and
\* the same with an upload as without.
C6_PageByPathOnly ==
    (Responded /\ check_auth(password, Req) /\ errno \in {"none", "ok"}) =>
        /\ Resp = DocumentedPage(Req.path)
        /\ Resp.status # 404
        /\ Req.path \notin {"/dropzone.js", "/dropzone.css", "/style.css", "/index.html"}
             => Resp = DocumentedPage("/index.html")

\* C6 witness: a POST of /style.css with an upload got the style sheet.
C6_Witness ==
    /\ Responded
    /\ Req.method = "POST"
    /\ Req.path = "/style.css"
    /\ errno = "ok"
    /\ Resp.status = 200
    /\ Resp.mimetype = "text/css"

\* C10: an accepted request whose save raises ends in the server's 500, never
\* in the 200 page, and reads no static asset; the application's password and
\* upload directory stay what the constructor set.
C10_WriteFailurePropagates ==
    /\ (Responded /\ errno \notin {"none", "ok"}) =>
          /\ check_auth(password, Req)
          /\ Resp.status = 500
          /\ Resp # DocumentedPage(Req.path)
          /\ assets = {}
    /\ \/ password = ExamplePassword /\ upload_dir = SuppliedDir
       \/ password = get_random_password(rnd) /\ upload_dir = MkdTemp

\* C10 witness: the disk filled during a save, which left a partial file, and
\* the request was answered 500.
C10_Witness ==
    /\ Responded
    /\ errno = ENOSPC
    /\ target # None
    /\ target[1] \in DOMAIN files
    /\ files[target[1]] = <<"h">>
    /\ Resp.status = 500

\* --------------------------------------------- properties of the constructor

\* The characters of ALLOWED_PWD_CHARS.
AllowedSet == {ALLOWED_PWD_CHARS[i] : i \in 1..Len(ALLOWED_PWD_CHARS)}

\* C8 as stated: a generated secret has 23 characters, all of the alphabet,
\* which has 57 characters and none of 0, O, 1, l, I; the application's
\* password is generated when none is supplied and is the one supplied otherwise.
C8_Alphabet57 ==
    boot.pc = "constructed" =>
        /\ boot.pwArg = None =>
             /\ password = get_random_password(rnd)
             /\ Len(password) = 23
             /\ \A i \in 1..Len(password) : password[i] \in AllowedSet
             /\ Cardinality(AllowedSet) = 57
             /\ AllowedSet \cap AmbiguousChars = {}
        /\ boot.pwArg # None => password = boot.pwArg[1]

\* C8 amended: the same with an alphabet of 55 characters, which besides
\* 0, O, 1, l, I also leaves out the lowercase i and o.
C8_Alphabet55 ==
    boot.pc = "constructed" =>
        /\ boot.pwArg = None =>
             /\ password = get_random_password(rnd)
             /\ Len(password) = 23
             /\ \A i \in 1..Len(password) : password[i] \in AllowedSet
             /\ Cardinality(AllowedSet) = 55
             /\ Len(ALLOWED_PWD_CHARS) = 55
             /\ AllowedSet \cap (AmbiguousChars \cup {"i", "o"}) = {}
        /\ boot.pwArg # None => password = boot.pwArg[1]

\* C8 witness: a generated secret that starts with the alphabet's last
\* character and wraps around to its first.
C8_Witness ==
    /\ boot.pc = "constructed"
    /\ boot.pwArg = None
    /\ Len(password) = 23
    /\ password[1] = "z" /\ password[2] = "A" /\ password[23] = "X"

\* ------------------------------------------------ properties of run_server

\* C9: the server listens only with a valid certificate pair provisioned; when
\* the openssl command is absent or fails, startup aborts before listening.
C9_ListenOnlyWithCertificate ==
    boot.pc = "listening" => (boot.cert = "valid" /\ boot.openssl = "ok")

\* ------------------------------------------- properties of a threaded server

AllDone == \A t \in 1..NThreads : threads[t].pc = "done"

\* The threads of the batch that saved an upload to the file p.
Writers(p) ==
    {t \in 1..NThreads :
        threads[t].status = 200 /\ threads[t].target = Some(p)}

\* C7: once the requests served at once are all answered, a file they saved
\* to holds the complete content of one of those uploads, never a mixture.
C7_LastWriteWins ==
    AllDone =>
        \A p \in DOMAIN files :
            Writers(p) # {} => files[p] \in {threads[t].data : t \in Writers(p)}

====
